---- MODULE Spec2Model ----
(***************************************************************************)
(* Model of the vault engine of password-wallet-cli (src/vault.py):        *)
(* PasswordVault instances sharing a file system that holds one salt file  *)
(* and the vault files.  Every public method of PasswordVault is one       *)
(* action; the outcome of each file operation (success, I/O error, process *)
(* death between open(..., 'wb') and the end of write) is an input of the  *)
(* action.                                                                 *)
(***************************************************************************)
EXTENDS Integers, Sequences, FiniteSets, TLC

\* ---------------------------------------------------------------- bounds
\* Number of readings of the clock (datetime.now()) a behaviour may take:
\* every add_entry that builds an entry takes one.
MaxClock == 2

\* Number of file operations that fail (I/O error or process death) in a
\* behaviour.
MaxFaults == 1

\* Number of calls of os.urandom(16) in a behaviour.
MaxSalts == 2

\* ---------------------------------------------------------------- inputs
Instances == {1, 2}

DefaultVaultPath == "data/vault.enc"

VaultPaths == {DefaultVaultPath, "data/alt.enc"}

Passphrases == {"P", "Q"}

\* The sites entries are stored under.  A site is a sequence of characters,
\* so that lower() is computed.
Sites == { <<"a", "b">>, <<"A", "B">>, <<"b">> }

\* The sites looked up: the stored ones, another casing of each, and a site
\* that is never stored.
QuerySites == Sites \cup { <<"A", "b">>, <<"B">>, <<"a">> }

\* The (site, username, password) arguments add_entry is called with.
AddInputs ==
    { [site |-> <<"a", "b">>, username |-> "alice", password |-> "p1"],
      [site |-> <<"A", "B">>, username |-> "bob", password |-> "p2"],
      [site |-> <<"b">>, username |-> "alice", password |-> "p3"] }

\* ------------------------------------------------------ values and files
\* self.fernet = None
NoKey == [kind |-> "none"]

\* os.path.exists(path) is false
NoFile == [kind |-> "absent"]

\* A file opened with 'wb' whose write did not complete: empty or partial.
Truncated == [kind |-> "truncated"]

\* Salt file absent.
NoSalt == <<"absent", 0>>

\* str.lower() on one character of the alphabet used by Sites.
LowerChar(c) ==
    IF c = "A" THEN "a" ELSE IF c = "B" THEN "b" ELSE c

\* str.lower()
Lower(s) ==
    [n \in DOMAIN s |-> LowerChar(s[n])]

\* PBKDF2HMAC(SHA256, salt, 100000).derive(password) then urlsafe base64:
\* a deterministic, collision-free function of (password, salt).
DeriveKey(password, salt) ==
    [kind |-> "key", pass |-> password, salt |-> salt]

\* os.urandom(16): 16 random bytes do not repeat, so the n-th call returns
\* a value no earlier call returned.
Urandom(n) ==
    <<"salt", n + 1>>

\* _get_or_create_salt with the existence test lost: a new salt is drawn and
\* written on every call.
GetOrCreateSalt_AlwaysNew(salt, n) ==
    [salt |-> Urandom(n), file |-> Urandom(n), drawn |-> n + 1]

\* _get_or_create_salt, as a relation: salt is the salt file before the
\* call, n the number of os.urandom calls so far; the result holds the
\* value returned, the salt file afterwards and the os.urandom calls made.
GetOrCreateSalt(salt, n) ==
    IF salt # NoSalt
    THEN [salt |-> salt, file |-> salt, drawn |-> n]
    ELSE [salt |-> Urandom(n), file |-> Urandom(n), drawn |-> n + 1]

\* json.dumps of one entry dict: the members in insertion order.
JsonDumpsEntry(e) ==
    << <<"site", e.site>>, <<"username", e.username>>,
       <<"password", e.password>>, <<"created_at", e.created_at>> >>

\* json.dumps(self.entries, indent=2)
JsonDumps(es) ==
    [n \in DOMAIN es |-> JsonDumpsEntry(es[n])]

\* json.loads of one object: a dict keyed by the member names.
JsonLoadsEntry(obj) ==
    [k \in {obj[n][1] : n \in DOMAIN obj} |->
        obj[CHOOSE n \in DOMAIN obj : obj[n][1] = k][2]]

\* json.loads(decrypted_data.decode())
JsonLoads(data) ==
    [n \in DOMAIN data |-> JsonLoadsEntry(data[n])]

\* Fernet(key).encrypt(data): an authenticated token bound to the key.
Encrypt(key, data) ==
    [kind |-> "token", key |-> key, data |-> data]

\* decrypt without authentication: any whole token decrypts.
DecryptOk_NoAuth(key, file) ==
    file.kind = "token"

\* Fernet(key).decrypt(token): InvalidToken unless the file is a whole
\* token made with the same key.
DecryptOk(key, file) ==
    file.kind = "token" /\ file.key = key

\* _find_entry_index comparing the sites without lower().
FindEntryIndex_CaseSensitive(es, site) ==
    IF \E n \in DOMAIN es : es[n].site = site
    THEN CHOOSE n \in DOMAIN es :
            /\ es[n].site = site
            /\ \A m \in DOMAIN es : es[m].site = site => n <= m
    ELSE 0

\* _find_entry_index: first index whose site matches ignoring case, 0 = None.
FindEntryIndex(es, site) ==
    IF \E n \in DOMAIN es : Lower(es[n].site) = Lower(site)
    THEN CHOOSE n \in DOMAIN es :
            /\ Lower(es[n].site) = Lower(site)
            /\ \A m \in DOMAIN es : Lower(es[m].site) = Lower(site) => n <= m
    ELSE 0

\* entry_exists
EntryExists(es, site) ==
    \E n \in DOMAIN es : Lower(es[n].site) = Lower(site)

\* add_entry inserting a new entry at the head of the list instead of
\* appending it.
PutEntry_Prepend(es, new) ==
    IF FindEntryIndex(es, new.site) # 0
    THEN [es EXCEPT ![FindEntryIndex(es, new.site)] = new]
    ELSE <<new>> \o es

\* add_entry lines 87-99: the entries list after the replace or append.
PutEntry(es, new) ==
    IF FindEntryIndex(es, new.site) # 0
    THEN [es EXCEPT ![FindEntryIndex(es, new.site)] = new]
    ELSE Append(es, new)

\* _save_vault: return value and vault file afterwards, for a save that
\* returns (io is "ok", "open_err" or "write_err").
SaveVault(key, es, old, io) ==
    IF key = NoKey THEN [ret |-> FALSE, file |-> old]
    ELSE IF io = "ok" THEN [ret |-> TRUE, file |-> Encrypt(key, JsonDumps(es))]
    ELSE IF io = "open_err" THEN [ret |-> FALSE, file |-> old]
    ELSE [ret |-> FALSE, file |-> Truncated]

\* ----------------------------------------------------------------- state
VARIABLES
    saltFile,     \* content of data/salt.key, or NoSalt
    vaultFile,    \* vault path -> content of the file
    vault_path,   \* instance -> self.vault_path
    entries,      \* instance -> self.entries
    fernet,       \* instance -> key held by self.fernet, or NoKey
    unlocked,     \* instance -> its last initialize/unlock call succeeded
    now,          \* the clock read by datetime.now()
    faults,       \* file operations that have failed so far
    drawn,        \* calls of os.urandom made so far
    lastOp,       \* the call made by the last step and what it returned
    pc,           \* where PasswordWalletCLI.run is: "start", "menu", "exited"
    is_authenticated  \* PasswordWalletCLI.is_authenticated

vars == <<saltFile, vaultFile, vault_path, entries, fernet, unlocked, now, faults, drawn, lastOp, pc, is_authenticated>>

\* The state of the command-line session.
cliVars == <<pc, is_authenticated>>

Op(i, op, ret) ==
    [inst |-> i, op |-> op, ret |-> ret]

\* __init__ of every instance with the default vault_path; no file exists.
Init ==
    /\ saltFile = NoSalt
    /\ vaultFile = [p \in VaultPaths |-> NoFile]
    /\ vault_path = [i \in Instances |-> DefaultVaultPath]
    /\ entries = [i \in Instances |-> <<>>]
    /\ fernet = [i \in Instances |-> NoKey]
    /\ unlocked = [i \in Instances |-> FALSE]
    /\ now = 0
    /\ faults = 0
    /\ drawn = 0
    /\ lastOp = Op(1, "construct", TRUE)
    /\ pc = "start"
    /\ is_authenticated = FALSE

\* PasswordVault(vault_path): a new object, bound to the same files, takes
\* the place of instance i (a restart of its process).
Construct(i) ==
    /\ entries' = [entries EXCEPT ![i] = <<>>]
    /\ fernet' = [fernet EXCEPT ![i] = NoKey]
    /\ unlocked' = [unlocked EXCEPT ![i] = FALSE]
    /\ lastOp' = Op(i, "construct", TRUE)
    /\ UNCHANGED <<saltFile, vaultFile, vault_path, now, faults, drawn>>

\* The outcome io of the file operations of one call: "ok", or the one
\* that fails.  A call that reaches no file operation has outcome "ok".
Outcome(io) ==
    /\ io # "ok" => faults < MaxFaults
    /\ faults' = IF io # "ok" THEN faults + 1 ELSE faults

\* The process owning instance i dies inside _save_vault after open(..,'wb')
\* truncated the file: the object is gone, a later process constructs anew.
CrashInSave(i) ==
    /\ vaultFile' = [vaultFile EXCEPT ![vault_path[i]] = Truncated]
    /\ entries' = [entries EXCEPT ![i] = <<>>]
    /\ fernet' = [fernet EXCEPT ![i] = NoKey]
    /\ unlocked' = [unlocked EXCEPT ![i] = FALSE]

\* initialize_vault(master_password)
InitializeVault(i, P, io) ==
    /\ Outcome(io)
    /\ IF io = "salt_err"
       THEN /\ lastOp' = Op(i, "init", FALSE)
            /\ UNCHANGED <<saltFile, drawn, vaultFile, entries, fernet, unlocked>>
       ELSE LET g == GetOrCreateSalt(saltFile, drawn) IN
            /\ g.drawn <= MaxSalts
            /\ saltFile' = g.file
            /\ drawn' = g.drawn
            /\ IF io = "crash"
               THEN /\ CrashInSave(i)
                    /\ lastOp' = Op(i, "crash", FALSE)
               ELSE LET key == DeriveKey(P, g.salt)
                        sv == SaveVault(key, <<>>, vaultFile[vault_path[i]], io)
                    IN /\ fernet' = [fernet EXCEPT ![i] = key]
                       /\ entries' = [entries EXCEPT ![i] = <<>>]
                       /\ vaultFile' = [vaultFile EXCEPT ![vault_path[i]] = sv.file]
                       /\ unlocked' = [unlocked EXCEPT ![i] = TRUE]
                       \* line 50-51: the result of _save_vault is dropped
                       /\ lastOp' = Op(i, "init", TRUE)
    /\ UNCHANGED <<vault_path, now>>

\* unlock_vault(master_password)
UnlockVault(i, P, io) ==
    /\ Outcome(io)
    /\ IF vaultFile[vault_path[i]] = NoFile
       THEN /\ io = "ok"
            /\ lastOp' = Op(i, "unlock", FALSE)
            /\ unlocked' = [unlocked EXCEPT ![i] = FALSE]
            /\ UNCHANGED <<saltFile, drawn, entries, fernet>>
       ELSE IF io = "salt_err"
       THEN /\ lastOp' = Op(i, "unlock", FALSE)
            /\ unlocked' = [unlocked EXCEPT ![i] = FALSE]
            /\ UNCHANGED <<saltFile, drawn, entries, fernet>>
       ELSE LET g == GetOrCreateSalt(saltFile, drawn)
                key == DeriveKey(P, g.salt)
                file == vaultFile[vault_path[i]]
                ok == io = "ok" /\ DecryptOk(key, file)
            IN /\ g.drawn <= MaxSalts
               /\ saltFile' = g.file
               /\ drawn' = g.drawn
               /\ fernet' = [fernet EXCEPT ![i] = key]
               /\ entries' = IF ok
                             THEN [entries EXCEPT ![i] = JsonLoads(file.data)]
                             ELSE entries
               /\ unlocked' = [unlocked EXCEPT ![i] = ok]
               /\ lastOp' = Op(i, "unlock", ok)
    /\ UNCHANGED <<vaultFile, vault_path, now>>

\* add_entry(site, username, password)
AddEntry(i, site, username, password, io) ==
    /\ Outcome(io)
    /\ IF fernet[i] = NoKey
       THEN /\ io = "ok"
            /\ lastOp' = Op(i, "add", FALSE)
            /\ UNCHANGED <<vaultFile, entries, fernet, unlocked, now>>
       ELSE /\ now < MaxClock
            /\ now' = now + 1
            /\ IF io = "crash"
               THEN /\ CrashInSave(i)
                    /\ lastOp' = Op(i, "crash", FALSE)
               ELSE LET new == [site |-> site, username |-> username,
                                password |-> password, created_at |-> now]
                        es == PutEntry(entries[i], new)
                        sv == SaveVault(fernet[i], es, vaultFile[vault_path[i]], io)
                    IN /\ entries' = [entries EXCEPT ![i] = es]
                       /\ vaultFile' = [vaultFile EXCEPT ![vault_path[i]] = sv.file]
                       /\ lastOp' = Op(i, "add", sv.ret)
                       /\ UNCHANGED <<fernet, unlocked>>
    /\ UNCHANGED <<saltFile, drawn, vault_path>>

\* Outcomes of the file operations of a save, of initialize_vault and of
\* unlock_vault.
SaveOutcomes == {"ok", "open_err", "write_err", "crash"}

InitOutcomes == SaveOutcomes \cup {"salt_err"}

UnlockOutcomes == {"ok", "salt_err", "read_err"}

DoConstruct == \E i \in Instances : Construct(i) /\ UNCHANGED cliVars

DoInitializeVault ==
    \E i \in Instances, P \in Passphrases, io \in InitOutcomes :
        InitializeVault(i, P, io) /\ UNCHANGED cliVars

DoUnlockVault ==
    \E i \in Instances, P \in Passphrases, io \in UnlockOutcomes :
        UnlockVault(i, P, io) /\ UNCHANGED cliVars

DoAddEntry ==
    \E i \in Instances, a \in AddInputs, io \in SaveOutcomes :
        AddEntry(i, a.site, a.username, a.password, io) /\ UNCHANGED cliVars

Next == DoConstruct \/ DoInitializeVault \/ DoUnlockVault \/ DoAddEntry

Spec == Init /\ [][Next]_vars

\* PasswordVault("data/vault.enc") and PasswordVault("data/alt.enc"): the
\* two instances are bound to different vault files.  self.salt_path is
\* "data/salt.key" for both, so saltFile is the salt file of both.
InitTwoVaults ==
    /\ saltFile = NoSalt
    /\ vaultFile = [p \in VaultPaths |-> NoFile]
    /\ vault_path = [i \in Instances |->
                        IF i = 1 THEN DefaultVaultPath ELSE "data/alt.enc"]
    /\ entries = [i \in Instances |-> <<>>]
    /\ fernet = [i \in Instances |-> NoKey]
    /\ unlocked = [i \in Instances |-> FALSE]
    /\ now = 0
    /\ faults = 0
    /\ drawn = 0
    /\ lastOp = Op(1, "construct", TRUE)
    /\ pc = "start"
    /\ is_authenticated = FALSE

SpecTwoVaults == InitTwoVaults /\ [][Next]_vars

\* Arguments of add_entry with one empty field: add_entry takes any strings.
EmptyFieldInputs ==
    { [site |-> <<>>, username |-> "alice", password |-> "p1"],
      [site |-> <<"b">>, username |-> "", password |-> "p1"],
      [site |-> <<"b">>, username |-> "alice", password |-> ""] }

\* add_entry called directly, with any of the arguments above.
DoAddEntryAnyInput ==
    \E i \in Instances, a \in AddInputs \cup EmptyFieldInputs, io \in SaveOutcomes :
        AddEntry(i, a.site, a.username, a.password, io) /\ UNCHANGED cliVars

NextAnyInput ==
    DoConstruct \/ DoInitializeVault \/ DoUnlockVault \/ DoAddEntryAnyInput

\* The vault engine used as a library: its callers pass any arguments.
SpecAnyInput == Init /\ [][NextAnyInput]_vars

\* ------------------------------------------------------ read-only calls
\* The keywords search_entries is called with: the sites looked up, the
\* empty keyword and a keyword no site contains.
Keywords == QuerySites \cup { <<>>, <<"b", "a">> }

\* Python's `sub in s` for strings: sub occurs in s as a contiguous run.
Contains(sub, s) ==
    \E k \in 0..(Len(s) - Len(sub)) : SubSeq(s, k + 1, k + Len(sub)) = sub

\* The test of search_entries comparing without lower().
SiteContains_CaseSensitive(keyword, site) ==
    Contains(keyword, site)

\* search_entries line 119: keyword_lower in entry["site"].lower()
SiteContains(keyword, site) ==
    Contains(Lower(keyword), Lower(site))

\* entry.get("created_at", "Unknown")
CreatedAt(e) ==
    IF "created_at" \in DOMAIN e THEN e.created_at ELSE "Unknown"

\* search_entries: the loop over enumerate(self.entries) from list index
\* n - 1 on; "index" is the 0-based index i of the entry in self.entries.
RECURSIVE SearchFrom(_, _, _)
SearchFrom(es, keyword, n) ==
    IF n > Len(es) THEN <<>>
    ELSE (IF SiteContains(keyword, es[n].site)
          THEN << [index |-> n - 1, site |-> es[n].site,
                   username |-> es[n].username, created_at |-> CreatedAt(es[n])] >>
          ELSE <<>>) \o SearchFrom(es, keyword, n + 1)

\* search_entries(keyword)
SearchEntries(es, keyword) ==
    SearchFrom(es, keyword, 1)

\* get_password returns None
None == "<None>"

\* get_password lines 132-135: the loop over self.entries from position n
\* on, returning at the first entry whose site matches ignoring case.
RECURSIVE GetPasswordFrom(_, _, _)
GetPasswordFrom(es, site, n) ==
    IF n > Len(es) THEN None
    ELSE IF Lower(es[n].site) = Lower(site) THEN es[n].password
    ELSE GetPasswordFrom(es, site, n + 1)

\* get_password comparing the sites without lower().
GetPassword_CaseSensitive(es, site) ==
    IF FindEntryIndex_CaseSensitive(es, site) # 0
    THEN es[FindEntryIndex_CaseSensitive(es, site)].password
    ELSE None

\* get_password(site): the password of the first entry whose site matches
\* ignoring case, or None.
GetPassword(es, site) ==
    GetPasswordFrom(es, site, 1)

\* get_entries copying the whole entry dict, password included.
GetEntries_WholeEntry(es) ==
    es

\* get_entries()
GetEntries(es) ==
    [n \in DOMAIN es |-> [site |-> es[n].site, username |-> es[n].username,
                          created_at |-> CreatedAt(es[n])]]

\* vault_exists()
VaultExists(i) ==
    vaultFile[vault_path[i]] # NoFile

\* ------------------------------------------------- command-line session
\* self.vault = PasswordVault(): the session's vault is instance 1, bound
\* to the default path.
CliVault == 1

\* run() going on to the menu whatever authenticate() returned.
AfterAuthenticate_NoExit(ret) ==
    "menu"

\* run() lines 246-250: sys.exit(1) unless authenticate() returned True,
\* otherwise on to the menu loop.
AfterAuthenticate(ret) ==
    IF ret THEN "menu" ELSE "exited"

\* main(): a new process makes PasswordWalletCLI() and calls run().
CliMain ==
    /\ pc = "exited"
    /\ Construct(CliVault)
    /\ pc' = "start"
    /\ is_authenticated' = FALSE

\* authenticate() and the test of its result in run().  P is the master
\* password typed: for a new vault, the one the loop of lines 44-55 ended
\* with.
CliAuthenticate(P, io) ==
    /\ pc = "start"
    /\ IF VaultExists(CliVault)
       THEN io \in UnlockOutcomes /\ UnlockVault(CliVault, P, io)
       ELSE io \in InitOutcomes /\ InitializeVault(CliVault, P, io)
    /\ pc' = IF lastOp'.op = "crash" THEN "exited"
             ELSE AfterAuthenticate(lastOp'.ret)
    /\ is_authenticated' = (pc' = "menu")

\* Menu choice 1, add_new_entry(): site and username are non-empty
\* (get_user_input); overwrite is the answer to the overwrite question,
\* password the password typed.
CliAddNewEntry(a, overwrite, password, io) ==
    /\ pc = "menu"
    /\ IF (EntryExists(entries[CliVault], a.site) /\ ~overwrite) \/ password = ""
       THEN /\ io = "ok"
            /\ lastOp' = Op(CliVault, "entry_exists",
                            EntryExists(entries[CliVault], a.site))
            /\ UNCHANGED <<saltFile, vaultFile, vault_path, entries, fernet,
                           unlocked, now, faults, drawn, cliVars>>
       ELSE /\ AddEntry(CliVault, a.site, a.username, password, io)
            /\ pc' = IF lastOp'.op = "crash" THEN "exited" ELSE "menu"
            /\ UNCHANGED is_authenticated

\* Menu choice 2, view_all_entries()
CliViewAllEntries ==
    /\ pc = "menu"
    /\ lastOp' = Op(CliVault, "get_entries", TRUE)
    /\ UNCHANGED <<saltFile, vaultFile, vault_path, entries, fernet,
                   unlocked, now, faults, drawn, cliVars>>

\* Menu choice 3, search_by_site(): the keyword is non-empty
\* (get_user_input); reveal is the answer to the reveal question.
CliSearchBySite(keyword, reveal) ==
    /\ pc = "menu"
    /\ keyword # <<>>
    /\ lastOp' = IF SearchEntries(entries[CliVault], keyword) # <<>> /\ reveal
                 THEN Op(CliVault, "get_password", TRUE)
                 ELSE Op(CliVault, "search_entries", TRUE)
    /\ UNCHANGED <<saltFile, vaultFile, vault_path, entries, fernet,
                   unlocked, now, faults, drawn, cliVars>>

\* Menu choice 5
CliExit ==
    /\ pc = "menu"
    /\ pc' = "exited"
    /\ UNCHANGED <<saltFile, vaultFile, vault_path, entries, fernet,
                   unlocked, now, faults, drawn, lastOp, is_authenticated>>

DoCliAuthenticate ==
    \E P \in Passphrases, io \in InitOutcomes \cup UnlockOutcomes :
        CliAuthenticate(P, io)

DoCliAddNewEntry ==
    \E a \in AddInputs, overwrite \in BOOLEAN, io \in SaveOutcomes :
        \E password \in {a.password, ""} :
            CliAddNewEntry(a, overwrite, password, io)

DoCliSearchBySite ==
    \E keyword \in Keywords, reveal \in BOOLEAN :
        CliSearchBySite(keyword, reveal)

NextCLI ==
    \/ CliMain
    \/ DoCliAuthenticate
    \/ DoCliAddNewEntry
    \/ CliViewAllEntries
    \/ DoCliSearchBySite
    \/ CliExit

\* The program as run from main(): one command-line session after another.
SpecCLI == Init /\ [][NextCLI]_vars

\* ----------------------------------------------------------------- claims
\* Instances bound to the same vault file.
SameVault(i, j) == vault_path[i] = vault_path[j]

\* The vault file instance i is bound to.
FileOf(i) == vaultFile[vault_path[i]]

\* C1: if the process dies during a save, the vault file afterwards is a
\* whole snapshot (the previous one or the new one), never an empty or
\* truncated file, so that a correct-passphrase unlock of it succeeds.
C1_CrashLeavesWholeSnapshot ==
    lastOp.op = "crash" => FileOf(lastOp.inst).kind = "token"

\* C2: after unlock_vault returns failure the instance holds no key and is
\* Locked; after it returns success the RecordSet is the one of the vault
\* file and the instance is Unlocked.
C2_FailedUnlockHoldsNoKey ==
    lastOp.op = "unlock" =>
        IF lastOp.ret
        THEN /\ unlocked[lastOp.inst]
             /\ fernet[lastOp.inst] # NoKey
             /\ FileOf(lastOp.inst).kind = "token"
             /\ entries[lastOp.inst] = JsonLoads(FileOf(lastOp.inst).data)
        ELSE /\ ~unlocked[lastOp.inst]
             /\ fernet[lastOp.inst] = NoKey

\* C3: after initialize_vault(P) and any number of successful add_entry
\* calls by instance i, with nothing else done since, unlock_vault(P) by
\* another instance bound to the same files succeeds and loads entries equal
\* to those of instance i, in the same order with the same fields.
C3_RoundTrip ==
    [][\A i, j \in Instances, P \in Passphrases :
        ( /\ lastOp'.op = "unlock" /\ lastOp'.inst = j
          /\ i # j /\ SameVault(i, j)
          /\ lastOp.inst = i /\ lastOp.op \in {"init", "add"} /\ lastOp.ret
          /\ unlocked[i] /\ fernet[i] = DeriveKey(P, saltFile)
          /\ UnlockVault(j, P, "ok") )
        => (lastOp'.ret /\ entries'[j] = entries[i])]_vars

\* A weaker form of C3 that holds: the round trip after a successful
\* add_entry (whose save completed).
C3_RoundTripAfterAdd ==
    [][\A i, j \in Instances, P \in Passphrases :
        ( /\ lastOp'.op = "unlock" /\ lastOp'.inst = j
          /\ i # j /\ SameVault(i, j)
          /\ lastOp.inst = i /\ lastOp.op = "add" /\ lastOp.ret
          /\ fernet[i] = DeriveKey(P, saltFile)
          /\ UnlockVault(j, P, "ok") )
        => (lastOp'.ret /\ entries'[j] = entries[i])]_vars

\* C4: unlock_vault(P') on a vault encrypted under a passphrase other than
\* P' returns failure and leaves the instance's entries as they were.
C4_WrongPassphraseRejected ==
    [][\A i \in Instances, P \in Passphrases, io \in UnlockOutcomes :
        ( /\ lastOp'.op = "unlock" /\ lastOp'.inst = i
          /\ FileOf(i).kind = "token"
          /\ FileOf(i).key.pass # P
          /\ UnlockVault(i, P, io) )
        => (~lastOp'.ret /\ entries'[i] = entries[i])]_vars

\* An unlock with the wrong passphrase has just failed on a vault that holds
\* an entry, and the instance has loaded none of it.
C4_Witness ==
    /\ lastOp.op = "unlock" /\ ~lastOp.ret
    /\ FileOf(lastOp.inst).kind = "token"
    /\ fernet[lastOp.inst] # NoKey
    /\ fernet[lastOp.inst].pass # FileOf(lastOp.inst).key.pass
    /\ Len(FileOf(lastOp.inst).data) >= 1
    /\ entries[lastOp.inst] = <<>>

\* C5: add_entry on an instance that is not Unlocked returns failure and
\* changes neither the instance's entries nor the vault file.
C5_AddOnlyWhenUnlocked ==
    [][\A i \in Instances, a \in AddInputs, io \in SaveOutcomes :
        ( /\ lastOp'.inst = i /\ ~unlocked[i]
          /\ AddEntry(i, a.site, a.username, a.password, io) )
        => ( /\ ~lastOp'.ret
             /\ entries'[i] = entries[i]
             /\ vaultFile' = vaultFile )]_vars

\* C6: initialize_vault while the vault file exists does not succeed and
\* leaves the vault file unchanged.
C6_InitOnlyWithoutVaultFile ==
    [][\A i \in Instances, P \in Passphrases, io \in InitOutcomes :
        ( /\ lastOp'.inst = i /\ FileOf(i) # NoFile
          /\ InitializeVault(i, P, io) )
        => (~lastOp'.ret /\ vaultFile' = vaultFile)]_vars

\* No two entries of es have sites equal ignoring case.
NoDuplicateSites(es) ==
    \A m, n \in DOMAIN es : Lower(es[m].site) = Lower(es[n].site) => m = n

\* C7: in every state no instance's entries, and no vault file, holds two
\* entries whose sites are equal ignoring case (so an add_entry for a site
\* present in another casing has not lengthened the list), and entry_exists
\* is true for every casing of every stored site.
C7_NoDuplicateSites ==
    \A i \in Instances :
        /\ NoDuplicateSites(entries[i])
        /\ FileOf(i).kind = "token" => NoDuplicateSites(JsonLoads(FileOf(i).data))
        /\ \A n \in DOMAIN entries[i], q \in QuerySites :
             Lower(q) = Lower(entries[i][n].site) => EntryExists(entries[i], q)

\* The second add_entry, for <<"A","B">>, has replaced the entry stored by
\* the first in another casing: one entry, found under a third casing.
C7_Witness ==
    /\ lastOp.op = "add" /\ lastOp.ret
    /\ now = 2
    /\ Len(entries[lastOp.inst]) = 1
    /\ entries[lastOp.inst][1].site = <<"A", "B">>
    /\ entries[lastOp.inst][1].created_at = 1
    /\ EntryExists(entries[lastOp.inst], <<"A", "b">>)
    /\ Len(FileOf(lastOp.inst).data) = 1

C9_SaltNeverRewritten ==
    [][saltFile # NoSalt =>
        /\ saltFile' = saltFile
        /\ drawn' = drawn
        /\ \A i \in Instances :
             (fernet'[i] # fernet[i] /\ fernet'[i] # NoKey)
             => fernet'[i].salt = saltFile]_vars

\* The salt file exists and two instances have derived keys for different
\* passphrases from it, the later one by unlock_vault.
C9_Witness ==
    /\ saltFile # NoSalt
    /\ lastOp.op = "unlock"
    /\ \A i \in Instances : fernet[i] # NoKey /\ fernet[i].salt = saltFile
    /\ \E i, j \in Instances : fernet[i].pass # fernet[j].pass

\* C10: when exactly one of the salt file and the vault file exists,
\* initialize_vault and unlock_vault return failure and create no salt file.
C10_InconsistentFilesRejected ==
    [][\A i \in Instances, P \in Passphrases :
        ( /\ lastOp'.inst = i
          /\ (saltFile = NoSalt) # (FileOf(i) = NoFile)
          /\ \/ \E io \in InitOutcomes : InitializeVault(i, P, io)
             \/ \E io \in UnlockOutcomes : UnlockVault(i, P, io) )
        => ( /\ ~lastOp'.ret
             /\ saltFile = NoSalt => saltFile' = NoSalt )]_vars

\* C11: two instances constructed with different vault file paths and
\* initialized with the same passphrase hold different keys (each vault has
\* a salt of its own).
C11_SaltPerVault ==
    \A i, j \in Instances :
        ( /\ vault_path[i] # vault_path[j]
          /\ unlocked[i] /\ unlocked[j]
          /\ fernet[i] # NoKey /\ fernet[j] # NoKey
          /\ fernet[i].pass = fernet[j].pass )
        => fernet[i] # fernet[j]

\* C12: when the save of an add_entry on an Unlocked instance fails with an
\* I/O error, add_entry returns failure, the instance's entries hold the new
\* entry, and the vault file keeps its previous content.
C12_FailedPersistKeepsFile ==
    [][\A i \in Instances, a \in AddInputs, io \in {"open_err", "write_err"} :
        ( /\ lastOp'.op = "add" /\ lastOp'.inst = i /\ unlocked[i]
          /\ AddEntry(i, a.site, a.username, a.password, io) )
        => ( /\ ~lastOp'.ret
             /\ \E n \in DOMAIN entries'[i] :
                  entries'[i][n] = [site |-> a.site, username |-> a.username,
                                    password |-> a.password, created_at |-> now]
             /\ vaultFile' = vaultFile )]_vars

\* An entry with an empty site, username or password.
HasEmptyField(e) ==
    e.site = <<>> \/ e.username = "" \/ e.password = ""

\* C13: add_entry with an empty site, username or password is rejected:
\* it returns failure, leaves the entries and the vault file unchanged, and
\* no entry with an empty field is stored.
C13_EmptyFieldRejected ==
    [][\A i \in Instances, a \in EmptyFieldInputs, io \in SaveOutcomes :
        ( /\ lastOp'.inst = i
          /\ AddEntry(i, a.site, a.username, a.password, io) )
        => ( /\ ~lastOp'.ret
             /\ entries'[i] = entries[i]
             /\ vaultFile' = vaultFile
             /\ \A n \in DOMAIN entries'[i] : ~HasEmptyField(entries'[i][n]) )]_vars

\* C14: when initialize_vault(P) returns success from the state without a
\* vault file, afterwards the vault file exists and is a whole snapshot of
\* the empty list, the entries are empty, get_entries() is empty, and the
\* instance is Unlocked and holds the key.
C14_InitCreatesVaultFile ==
    [][\A i \in Instances, P \in Passphrases, io \in InitOutcomes :
        ( /\ lastOp'.op = "init" /\ lastOp'.inst = i /\ lastOp'.ret
          /\ FileOf(i) = NoFile
          /\ InitializeVault(i, P, io) )
        => ( /\ VaultExists(i)'
             /\ vaultFile'[vault_path[i]] = Encrypt(fernet'[i], JsonDumps(<<>>))
             /\ entries'[i] = <<>>
             /\ GetEntries(entries'[i]) = <<>>
             /\ unlocked'[i] /\ fernet'[i] # NoKey )]_vars

\* The positions of es whose site has keyword as a contiguous run of
\* characters, upper and lower case taken as equal.
SiteHits(es, keyword) ==
    { n \in DOMAIN es :
        \E k \in 0..(Len(es[n].site) - Len(keyword)) :
            \A c \in 1..Len(keyword) :
                LowerChar(es[n].site[k + c]) = LowerChar(keyword[c]) }

\* C15: search_entries(keyword) returns exactly the entries whose site
\* contains keyword ignoring case, in the order of the entries; each match's
\* index is the (0-based) position of its entry, whose site and username it
\* carries; and no match carries the password.
C15_SearchExact ==
    \A i \in Instances, keyword \in Keywords :
        LET es == entries[i]
            r == SearchEntries(es, keyword)
        IN /\ Len(r) = Cardinality(SiteHits(es, keyword))
           /\ \A m \in DOMAIN r :
                /\ r[m].index + 1 \in SiteHits(es, keyword)
                /\ es[r[m].index + 1].site = r[m].site
                /\ es[r[m].index + 1].username = r[m].username
                /\ DOMAIN r[m] = {"index", "site", "username", "created_at"}
           /\ \A m1, m2 \in DOMAIN r : m1 < m2 => r[m1].index < r[m2].index

\* Of two entries the second alone contains "A" ignoring case: the search
\* returns it as the first match, with index 1.
C15_Witness ==
    \E i \in Instances :
        /\ unlocked[i]
        /\ Len(entries[i]) = 2
        /\ entries[i][1].site = <<"b">>
        /\ SearchEntries(entries[i], <<"A">>) =
              << [index |-> 1, site |-> <<"a", "b">>, username |-> "alice",
                  created_at |-> entries[i][2].created_at] >>
        /\ Len(SearchEntries(entries[i], <<"B">>)) = 2

\* C16: whenever a step changes an instance's entries (they are empty at
\* the start), get_password(s) afterwards returns a password exactly when
\* entry_exists(s), both ignoring case, for every site s looked up; and
\* after an add_entry that updated the entries in memory, get_password
\* returns the password just given for every casing of the added site and
\* what it returned before for every other site.
C16_GetPasswordLatest ==
    [][\A i \in Instances :
        /\ entries'[i] # entries[i]
             => \A q \in QuerySites :
                  (GetPassword(entries'[i], q) # None) <=> EntryExists(entries'[i], q)
        /\ \A a \in AddInputs, io \in SaveOutcomes \ {"crash"} :
             ( /\ lastOp'.op = "add" /\ lastOp'.inst = i /\ fernet[i] # NoKey
               /\ AddEntry(i, a.site, a.username, a.password, io) )
             => \A q \in QuerySites :
                  GetPassword(entries'[i], q) =
                     IF Lower(q) = Lower(a.site) THEN a.password
                     ELSE GetPassword(entries[i], q) ]_vars

\* add_entry for <<"a","b">> has replaced the password stored under
\* <<"A","B">>: get_password under a third casing returns the new one.
C16_Witness ==
    /\ lastOp.op = "add"
    /\ unlocked[lastOp.inst]
    /\ Len(entries[lastOp.inst]) = 1
    /\ entries[lastOp.inst][1].created_at = 1
    /\ GetPassword(entries[lastOp.inst], <<"A", "b">>) = "p1"
    /\ GetPassword(entries[lastOp.inst], <<"b">>) = None

\* C17: get_entries() returns one item per entry, in the order of the
\* entries; each item has the fields site, username and created_at of its
\* entry and no other field; and the site is in the casing add_entry was
\* called with (the casing each username of AddInputs goes with).
C17_ListWithoutPasswords ==
    \A i \in Instances :
        LET es == entries[i]
            r == GetEntries(es)
        IN /\ Len(r) = Len(es)
           /\ \A n \in DOMAIN r :
                /\ DOMAIN r[n] = {"site", "username", "created_at"}
                /\ r[n].site = es[n].site
                /\ r[n].username = es[n].username
                /\ r[n].created_at = es[n].created_at
                /\ \E a \in AddInputs :
                     a.site = r[n].site /\ a.username = r[n].username

\* Two entries are listed, the second under the upper-case site it was
\* added with.
C17_Witness ==
    \E i \in Instances :
        /\ unlocked[i]
        /\ GetEntries(entries[i]) =
              << [site |-> <<"b">>, username |-> "alice", created_at |-> 0],
                 [site |-> <<"A", "B">>, username |-> "bob", created_at |-> 1] >>

\* C18: with two instances Unlocked on the same vault file under the same
\* key, an add_entry by one of them that returns success removes no entry of
\* another site from the vault file: what the other instance saved before
\* is still in the file afterwards.
C18_NoLostUpdate ==
    [][\A i, j \in Instances, a \in AddInputs :
        ( /\ lastOp'.op = "add" /\ lastOp'.inst = j /\ lastOp'.ret
          /\ i # j /\ SameVault(i, j)
          /\ unlocked[i] /\ unlocked[j] /\ fernet[i] = fernet[j]
          /\ FileOf(j).kind = "token"
          /\ AddEntry(j, a.site, a.username, a.password, "ok") )
        => LET before == JsonLoads(FileOf(j).data)
               after == JsonLoads(vaultFile'[vault_path[j]].data)
           IN \A n \in DOMAIN before :
                Lower(before[n].site) # Lower(a.site)
                => \E m \in DOMAIN after : after[m] = before[n]]_vars

\* The calls of the vault's entry operations.
CrudOps == {"add", "entry_exists", "get_entries", "search_entries", "get_password"}

\* C19: in the command-line session an entry operation of the vault is
\* called only from the menu loop, after authenticate() returned True
\* (its initialize_vault or unlock_vault call succeeded); when that call
\* returns False the session exits; and the menu loop is reached only with
\* authenticate() having returned True.
C19_CrudOnlyAfterAuthenticate ==
    [][ /\ (lastOp'.op \in CrudOps /\ lastOp' # lastOp)
             => (pc = "menu" /\ unlocked[CliVault] /\ lastOp'.inst = CliVault)
        /\ (pc = "start" /\ lastOp'.op \in {"init", "unlock"} /\ ~lastOp'.ret)
             => pc' = "exited"
        /\ pc' = "menu" => unlocked'[CliVault] ]_vars

\* A session has ended at a failed unlock_vault, on a vault file in which an
\* earlier session stored an entry after authenticating.
C19_Witness ==
    /\ pc = "exited" /\ ~is_authenticated
    /\ lastOp.op = "unlock" /\ ~lastOp.ret
    /\ FileOf(CliVault).kind = "token"
    /\ Len(FileOf(CliVault).data) >= 1
====
